---- MODULE Spec2Model ----
(***************************************************************************)
(* Biblioteca API (src/API/index.js): an Express service over one          *)
(* Sequelize model, Livro, stored in the SQLite table `livros`.  The file  *)
(* holds two revisions of the service with the same routes; the model      *)
(* follows the documented one (lines 127-342).  The screens of the app     *)
(* that send requests to it (FormLivro, DetalhesPage) are modelled next to *)
(* it.                                                                     *)
(*                                                                         *)
(* A string is a sequence of characters, a character a one-element label.  *)
(* A nullable value is NULL or Some(v).  A request body is a function from *)
(* the keys present in the JSON object to nullable values.                 *)
(***************************************************************************)
EXTENDS Integers, Sequences, FiniteSets, TLC

VARIABLES
    livros,           \* the table `livros`: id -> row
    sqlite_sequence,  \* largest rowid the table ever held (AUTOINCREMENT)
    now,              \* the server clock as save() last read it, in ticks
    issued,           \* ids returned by successful POST /livros so far
    req,              \* the request handled last
    res,              \* the response sent for it
    server,           \* the node process: "listening" or "crashed"
    sqliteError,      \* the query of the request handled last failed in SQLite
    pending,          \* handlers suspended at `await livro.update / destroy`
    form,             \* the state hooks of the FormLivro screen
    detalhes,         \* the `livro` parameter of the open DetalhesPage, or NULL
    alerta,           \* the Alert the app is showing, or NULL
    lista             \* the state hooks of ListaLivros and its requests in flight

vars == <<livros, sqlite_sequence, now, issued, req, res, server, sqliteError,
          pending, form, detalhes, alerta, lista>>

\* ------------------------------------------------------------------ bounds
MaxId == 2        \* rowids the table hands out
MaxClock == 1     \* ticks of the server clock
MaxPending == 2   \* handlers suspended at the same time

\* ------------------------------------------------------------------ values
NULL == <<>>
Some(v) == <<v>>
Val(m) == m[1]

Max(a, b) == IF a >= b THEN a ELSE b

\* Characters.  The two non-ASCII ones are named by their code points.
UpperEacute == "U+00C9"
LowerEacute == "U+00E9"

\* Code point of a character: the order of SQLite's BINARY collation.
Code(c) ==
    CASE c = " " -> 32
      [] c = "%" -> 37
      [] c = "A" -> 65
      [] c = "B" -> 66
      [] c = "F" -> 70
      [] c = "X" -> 88
      [] c = "_" -> 95
      [] c = "a" -> 97
      [] c = "b" -> 98
      [] c = "y" -> 121
      [] c = UpperEacute -> 201
      [] c = LowerEacute -> 233

\* SQLite's LIKE folds case for the 26 ASCII letters only.
AsciiLower(c) ==
    CASE c = "A" -> "a"
      [] c = "B" -> "b"
      [] c = "F" -> "f"
      [] c = "X" -> "x"
      [] OTHER -> c

\* SQLite LIKE: % matches any run of characters, _ exactly one character,
\* any other pattern character matches itself up to ASCII case.
RECURSIVE Like(_, _)
Like(s, pattern) ==
    IF pattern = <<>> THEN s = <<>>
    ELSE IF Head(pattern) = "%"
         THEN Like(s, Tail(pattern)) \/ (s # <<>> /\ Like(Tail(s), pattern))
    ELSE IF s = <<>> THEN FALSE
    ELSE IF Head(pattern) = "_" THEN Like(Tail(s), Tail(pattern))
    ELSE /\ AsciiLower(Head(s)) = AsciiLower(Head(pattern))
         /\ Like(Tail(s), Tail(pattern))

\* ORDER BY titulo ASC under the BINARY collation: memcmp of the text.
RECURSIVE BinaryLeq(_, _)
BinaryLeq(s, t) ==
    IF s = <<>> THEN TRUE
    ELSE IF t = <<>> THEN FALSE
    ELSE IF Code(Head(s)) # Code(Head(t)) THEN Code(Head(s)) < Code(Head(t))
    ELSE BinaryLeq(Tail(s), Tail(t))

\* ------------------------------------------------------------------ model Livro
\* The attributes of the model, with the timestamps Sequelize adds.
Attributes ==
    {"id", "titulo", "autor", "ano", "genero", "disponivel",
     "descricao", "imagemUrl", "linkDownload", "createdAt", "updatedAt"}

\* allowNull: false
NotNullAttributes == {"titulo", "autor", "disponivel"}

\* Attributes instance.set() leaves alone on a persisted instance: the
\* primary key and the timestamps.
ReadOnlyAttributes == {"id", "createdAt", "updatedAt"}

\* Columns that hold NULL or a value; the others always hold a value.
NullableAttributes == {"ano", "genero", "descricao", "imagemUrl", "linkDownload"}

Keys(body) == DOMAIN body

NoBody == [k \in {} |-> NULL]

\* The value a row stores for attribute k when the instance holds the
\* nullable value m.
Column(k, m) == IF k \in NullableAttributes THEN m ELSE Val(m)

\* Instance validation: a notNull violation for every allowNull:false
\* attribute whose value is null or undefined.
NotNullViolation(values) ==
    \E k \in NotNullAttributes : k \notin Keys(values) \/ values[k] = NULL

\* ------------------------------------------------------------------ responses
Response(status, livro, list, error, message) ==
    [status |-> status, livro |-> livro, livros |-> list,
     error |-> error, message |-> message]

\* res.json(livro), res.status(201).json(novo), res.json(livros)
JsonLivro(status, livro) == Response(status, Some(livro), <<>>, "", "")
JsonLivros(list) == Response(200, NULL, list, "", "")
\* res.status(code).json({ error })
JsonError(status, error) == Response(status, NULL, <<>>, error, "")
\* res.json({ message: 'Livro removido' })
JsonMessage(message) == Response(200, NULL, <<>>, "", message)

\* The 404 answer without .status(404): the error body goes out with 200.
NaoEncontradoSemStatus == JsonError(200, "Livro nao encontrado")

NaoEncontrado == JsonError(404, "Livro nao encontrado")

\* ------------------------------------------------------------------ Sequelize
\* Livro.findByPk(id)
FindByPk(table, id) == IF id \in DOMAIN table THEN Some(table[id]) ELSE NULL

\* Livro.build with defaultValue: false for `disponivel`.
BuildDefaultFalse(body) ==
    LET given == Keys(body) \cap Attributes
    IN  [k \in given \cup {"id", "disponivel"} |->
            IF k \in given THEN body[k]
            ELSE IF k = "disponivel" THEN Some(FALSE)
            ELSE NULL]

\* Livro.build(body): the attributes of the body, the defaultValue of
\* `disponivel` and a null primary key where the body gives none.
Build(body) ==
    LET given == Keys(body) \cap Attributes
    IN  [k \in given \cup {"id", "disponivel"} |->
            IF k \in given THEN body[k]
            ELSE IF k = "disponivel" THEN Some(TRUE)
            ELSE NULL]

\* save() of a new instance: updatedAt is always the current time, createdAt
\* is the current time unless the instance already holds one.
Stamp(values, t) ==
    [k \in Keys(values) \cup {"createdAt", "updatedAt"} |->
        IF k = "updatedAt" THEN Some(t)
        ELSE IF k = "createdAt"
             THEN IF k \in Keys(values) /\ values[k] # NULL THEN values[k] ELSE Some(t)
        ELSE values[k]]

\* The row INSERT writes: attributes the instance does not hold are NULL.
InsertedRow(values, rowid) ==
    [k \in Attributes |->
        IF k = "id" THEN rowid
        ELSE IF k \in Keys(values) THEN Column(k, values[k])
        ELSE NULL]

\* The instance after the INSERT, as res.json serialises it: the attributes
\* it holds, the primary key set from lastID.
Instance(values, row) == [k \in Keys(values) |-> row[k]]

\* Livro.create(body) against the table: the outcome of build, validate and
\* INSERT.  ok = FALSE stands for the rejected promise (validation error or
\* UNIQUE constraint on id).
Create(table, seq, body, t) ==
    LET values == Stamp(Build(body), t)
        rowid  == IF values["id"] = NULL THEN seq + 1 ELSE Val(values["id"])
        row    == InsertedRow(values, rowid)
    IN  IF NotNullViolation(values) \/ rowid \in DOMAIN table
        THEN [ok |-> FALSE, table |-> table, seq |-> seq, novo |-> NoBody]
        ELSE [ok |-> TRUE,
              table |-> [i \in DOMAIN table \cup {rowid} |->
                            IF i = rowid THEN row ELSE table[i]],
              seq |-> Max(seq, rowid),
              novo |-> Instance(values, row)]

\* A replacing set: attributes the body does not name are cleared.
SetReplace(row, body) ==
    [k \in Attributes |->
        IF k \in ReadOnlyAttributes THEN row[k]
        ELSE IF k \in Keys(body)
             THEN IF body[k] = NULL THEN NULL ELSE Column(k, body[k])
        ELSE IF k \in NullableAttributes THEN NULL
        ELSE row[k]]

\* A set that skips no attribute: the primary key and the timestamps are
\* taken from the body like any other.
SetAnyAttribute(row, body) ==
    [k \in Attributes |->
        IF k \in Keys(body)
        THEN IF body[k] = NULL THEN NULL ELSE Column(k, body[k])
        ELSE row[k]]

\* A set that resets `disponivel` to its default when the body does not
\* name it.
SetDefaulting(row, body) ==
    [k \in Attributes |->
        IF k \in Keys(body) /\ k \notin ReadOnlyAttributes
        THEN IF body[k] = NULL THEN NULL ELSE Column(k, body[k])
        ELSE IF k = "disponivel" THEN TRUE
        ELSE row[k]]

\* instance.set(body) on a persisted instance: keys that are no attribute,
\* the primary key and the timestamps are skipped.
Set(row, body) ==
    [k \in Attributes |->
        IF k \in Keys(body) /\ k \notin ReadOnlyAttributes
        THEN IF body[k] = NULL THEN NULL ELSE Column(k, body[k])
        ELSE row[k]]

\* The fields save() validates and writes: the attributes named by the body.
Fields(body) == Keys(body) \cap Attributes

\* livro.update(body): set, stamp updatedAt when any field is named,
\* validate the named fields, and UPDATE only when a value changed.
\* `livro` is the instance afterwards (what res.json(livro) sends), `row`
\* what the table holds.
Update(row, body, t) ==
    LET set     == Set(row, body)
        stamped == IF Fields(body) # {} THEN [set EXCEPT !["updatedAt"] = t] ELSE set
        invalid == \E k \in Fields(body) \cap NotNullAttributes : body[k] = NULL
    IN  IF invalid THEN [ok |-> FALSE, row |-> row, livro |-> row]
        ELSE IF set = row THEN [ok |-> TRUE, row |-> row, livro |-> stamped]
        ELSE [ok |-> TRUE, row |-> stamped, livro |-> stamped]

\* A DELETE without its WHERE clause.
DestroyAll(table, id) == [i \in {} |-> table[i]]

\* A destroy that removes nothing.
DestroyNothing(table, id) == table

\* livro.destroy(): DELETE FROM livros WHERE id = ...
Destroy(table, id) == [i \in DOMAIN table \ {id} |-> table[i]]

\* The rows of the table in rowid order, as a full scan yields them.
RECURSIVE Scan(_, _)
Scan(table, from) ==
    IF \A i \in DOMAIN table : i < from THEN <<>>
    ELSE IF from \in DOMAIN table THEN <<table[from]>> \o Scan(table, from + 1)
    ELSE Scan(table, from + 1)

\* order: [['titulo', 'ASC']]: each row goes after the rows whose titulo
\* is not greater.
RECURSIVE InsertByTitulo(_, _)
InsertByTitulo(sorted, row) ==
    IF sorted = <<>> THEN <<row>>
    ELSE IF BinaryLeq(Head(sorted).titulo, row.titulo)
         THEN <<Head(sorted)>> \o InsertByTitulo(Tail(sorted), row)
    ELSE <<row>> \o sorted

\* findAll without the order option: rows come back in scan order.
OrderByNone(rows) == rows

RECURSIVE OrderByTitulo(_)
OrderByTitulo(rows) ==
    IF rows = <<>> THEN <<>>
    ELSE InsertByTitulo(OrderByTitulo(SubSeq(rows, 1, Len(rows) - 1)), rows[Len(rows)])

\* ------------------------------------------------------------------ GET /livros
NoQuery == [titulo |-> NULL, autor |-> NULL, disponivel |-> NULL]

\* `if (req.query.x)`: the parameter is present and not the empty string.
Truthy(param) == param # NULL /\ Val(param) # <<>>

\* { [Op.like]: `%${param}%` }
LikePattern(param) == <<"%">> \o Val(param) \o <<"%">>

\* The `where` object GET /livros builds, as a predicate on a row.
Where(query, row) ==
    /\ Truthy(query.titulo) => Like(row.titulo, LikePattern(query.titulo))
    /\ Truthy(query.autor) => Like(row.autor, LikePattern(query.autor))
    /\ query.disponivel # NULL => row.disponivel = (Val(query.disponivel) = "true")

\* Livro.findAll({ where, order })
FindAll(table, query) ==
    OrderByTitulo(SelectSeq(Scan(table, 1), LAMBDA row : Where(query, row)))

\* ------------------------------------------------------------------ requests
Request(op, id, body, query) == [op |-> op, id |-> id, body |-> body, query |-> query]

\* A date the server clock does not reach.
FarFuture == MaxClock + 8

\* Request bodies of POST /livros.
PostBodies ==
    { [titulo |-> Some(<<"A", "b">>), autor |-> Some(<<"X">>)],
      [titulo |-> Some(<<UpperEacute>>), autor |-> Some(<<"y">>), ano |-> Some(1949),
       genero |-> Some(<<"F">>), descricao |-> Some(<<"F">>),
       imagemUrl |-> Some(<<"F">>), linkDownload |-> Some(<<"F">>)],
      [titulo |-> Some(<<>>), autor |-> Some(<<"X">>)],
      [titulo |-> NULL, autor |-> Some(<<"X">>)],
      [autor |-> Some(<<"X">>)],
      [titulo |-> Some(<<"A", "b">>)],
      [id |-> Some(1), titulo |-> Some(<<"A", "b">>), autor |-> Some(<<"X">>),
       createdAt |-> Some(FarFuture), updatedAt |-> Some(FarFuture)] }

\* Request bodies of PUT and PATCH /livros/:id.
UpdateBodies ==
    { [disponivel |-> Some(FALSE)],
      [titulo |-> Some(<<"b">>), autor |-> Some(<<"X">>)],
      [titulo |-> NULL, genero |-> Some(<<"b">>)],
      NoBody,
      [titulo |-> Some(<<" ">>), genero |-> NULL, id |-> Some(2),
       createdAt |-> Some(FarFuture)] }

\* Query strings of GET /livros.
Queries ==
    { NoQuery,
      [NoQuery EXCEPT !.titulo = Some(<<"a">>)],
      [NoQuery EXCEPT !.titulo = Some(<<"_">>)],
      [NoQuery EXCEPT !.titulo = Some(<<LowerEacute>>)],
      [NoQuery EXCEPT !.autor = Some(<<"x">>)],
      [NoQuery EXCEPT !.disponivel = Some("true")],
      [NoQuery EXCEPT !.disponivel = Some("false")],
      [NoQuery EXCEPT !.disponivel = Some("banana")],
      [NoQuery EXCEPT !.titulo = Some(<<"b">>), !.autor = Some(<<"X">>),
                      !.disponivel = Some("true")] }

Ids == 1 .. MaxId

Slots == 1 .. MaxPending

\* ------------------------------------------------------------------ handlers
\* save() reads the clock: a time not before the one it read last.
Arrive == \E t \in now .. MaxClock : now' = t

\* The process is up and the handler runs from the request to its response
\* in one piece, with no error from SQLite.
Served ==
    /\ server = "listening"
    /\ sqliteError' = FALSE
    /\ UNCHANGED <<server, pending>>

\* app.get('/')
GetRoot ==
    /\ Served
    /\ req' = Request("GET /", 0, NoBody, NoQuery)
    /\ res' = JsonMessage("ok")
    /\ UNCHANGED <<livros, sqlite_sequence, issued, now>>

\* app.get('/livros')
GetLivrosResponse(table, query) == JsonLivros(FindAll(table, query))

GetLivros(query) ==
    /\ Served
    /\ req' = Request("GET /livros", 0, NoBody, query)
    /\ res' = GetLivrosResponse(livros, query)
    /\ UNCHANGED <<livros, sqlite_sequence, issued, now>>

\* app.get('/livros/:id')
GetLivroResponse(table, id) ==
    IF FindByPk(table, id) = NULL THEN NaoEncontrado
    ELSE JsonLivro(200, Val(FindByPk(table, id)))

GetLivro(id) ==
    /\ Served
    /\ req' = Request("GET /livros/:id", id, NoBody, NoQuery)
    /\ res' = GetLivroResponse(livros, id)
    /\ UNCHANGED <<livros, sqlite_sequence, issued, now>>

\* app.post('/livros')
PostLivros(body) ==
    /\ Served
    /\ Arrive
    /\ LET created == Create(livros, sqlite_sequence, body, now')
       IN  /\ created.seq <= MaxId
           /\ req' = Request("POST /livros", 0, body, NoQuery)
           /\ livros' = created.table
           /\ sqlite_sequence' = created.seq
           /\ IF created.ok
              THEN /\ res' = JsonLivro(201, created.novo)
                   /\ issued' = issued \cup {created.novo["id"]}
              ELSE /\ res' = JsonError(500, "Erro ao criar livro")
                   /\ UNCHANGED issued

\* A PUT that replaces the book: what the body does not name is cleared
\* before the body is applied.
PutLivroHandlerReplacing(table, id, body, t) ==
    LET livro   == FindByPk(table, id)
        updated == Update(SetReplace(Val(livro), NoBody), body, t)
    IN  IF livro = NULL THEN [table |-> table, res |-> NaoEncontrado]
        ELSE IF updated.ok
             THEN [table |-> [table EXCEPT ![id] = updated.row],
                   res |-> JsonLivro(200, updated.livro)]
        ELSE [table |-> table, res |-> JsonError(500, "Erro ao atualizar livro")]

\* The handler of app.put('/livros/:id') at time t: the table it leaves and
\* the response it sends.
PutLivroHandler(table, id, body, t) ==
    LET livro   == FindByPk(table, id)
        updated == Update(Val(livro), body, t)
    IN  IF livro = NULL THEN [table |-> table, res |-> NaoEncontrado]
        ELSE IF updated.ok
             THEN [table |-> [table EXCEPT ![id] = updated.row],
                   res |-> JsonLivro(200, updated.livro)]
        ELSE [table |-> table, res |-> JsonError(500, "Erro ao atualizar livro")]

\* A PATCH that writes the body's non-null values before it validates.
PatchLivroHandlerSavingFirst(table, id, body, t) ==
    LET livro   == FindByPk(table, id)
        updated == Update(Val(livro), body, t)
        valid   == [k \in {f \in Keys(body) : body[f] # NULL} |-> body[k]]
    IN  IF livro = NULL THEN [table |-> table, res |-> NaoEncontrado]
        ELSE IF updated.ok
             THEN [table |-> [table EXCEPT ![id] = updated.row],
                   res |-> JsonLivro(200, updated.livro)]
        ELSE [table |-> [table EXCEPT ![id] = Set(Val(livro), valid)],
              res |-> JsonError(500, "Erro ao atualizar livro")]

\* The handler of app.patch('/livros/:id') at time t.
PatchLivroHandler(table, id, body, t) ==
    LET livro   == FindByPk(table, id)
        updated == Update(Val(livro), body, t)
    IN  IF livro = NULL THEN [table |-> table, res |-> NaoEncontrado]
        ELSE IF updated.ok
             THEN [table |-> [table EXCEPT ![id] = updated.row],
                   res |-> JsonLivro(200, updated.livro)]
        ELSE [table |-> table, res |-> JsonError(500, "Erro ao atualizar livro")]

\* A request to one of the two update routes, handled in one piece, where
\* `handled` is what the route's handler makes of it at the time save()
\* reads.  The clock is read only when the book was found.
UpdateLivro(op, id, body, handled) ==
    /\ Served
    /\ req' = Request(op, id, body, NoQuery)
    /\ UNCHANGED <<sqlite_sequence, issued>>
    /\ IF FindByPk(livros, id) = NULL THEN UNCHANGED now ELSE Arrive
    /\ livros' = handled.table
    /\ res' = handled.res

\* app.put('/livros/:id')
PutLivro(id, body) ==
    UpdateLivro("PUT /livros/:id", id, body, PutLivroHandler(livros, id, body, now'))

\* app.patch('/livros/:id')
PatchLivro(id, body) ==
    UpdateLivro("PATCH /livros/:id", id, body, PatchLivroHandler(livros, id, body, now'))

\* A DELETE answered 204 with no body.
DeleteLivroResponseNoContent(table, id) ==
    IF FindByPk(table, id) = NULL THEN NaoEncontrado
    ELSE Response(204, NULL, <<>>, "", "")

\* app.delete('/livros/:id')
DeleteLivroResponse(table, id) ==
    IF FindByPk(table, id) = NULL THEN NaoEncontrado
    ELSE JsonMessage("Livro removido")

DeleteLivro(id) ==
    /\ Served
    /\ req' = Request("DELETE /livros/:id", id, NoBody, NoQuery)
    /\ res' = DeleteLivroResponse(livros, id)
    /\ livros' = IF FindByPk(livros, id) = NULL THEN livros ELSE Destroy(livros, id)
    /\ UNCHANGED <<sqlite_sequence, issued, now>>

\* ------------------------------------------------------------------ requests in flight
\* An UPDATE that writes every attribute of the instance back.
WriteInstance(table, livro, fields) ==
    IF livro.id \in DOMAIN table
    THEN [table EXCEPT ![livro.id] = livro]
    ELSE table

\* UPDATE livros SET ... WHERE id = ...: the fields of the instance go to
\* the row of its id, if the table still holds one.
WriteFields(table, livro, fields) ==
    IF livro.id \in DOMAIN table
    THEN [table EXCEPT ![livro.id] =
             [k \in Attributes |-> IF k \in fields THEN livro[k] ELSE @[k]]]
    ELSE table

\* livro.update(body) on an instance read earlier: as Update, but the
\* UPDATE carries the named fields and updatedAt only, and goes to the table
\* as it is by now.  The number of rows it changed is not looked at.
UpdateInstance(table, livro, body, t) ==
    LET set     == Set(livro, body)
        stamped == IF Fields(body) # {} THEN [set EXCEPT !["updatedAt"] = t] ELSE set
        invalid == \E k \in Fields(body) \cap NotNullAttributes : body[k] = NULL
    IN  IF invalid THEN [ok |-> FALSE, table |-> table, livro |-> livro]
        ELSE IF set = livro THEN [ok |-> TRUE, table |-> table, livro |-> stamped]
        ELSE [ok |-> TRUE,
              table |-> WriteFields(table, stamped, Fields(body) \cup {"updatedAt"}),
              livro |-> stamped]

\* Bodies of the PUT and PATCH requests that overlap with others.
ConcurrentBodies ==
    { [disponivel |-> Some(FALSE)],
      [titulo |-> Some(<<"b">>)] }

\* The first half of app.put, app.patch and app.delete('/livros/:id'):
\* findByPk, and 404 when there is no such book.  Otherwise the handler is
\* suspended at `await livro.update(req.body)` or `await livro.destroy()`
\* with the instance it read, and other requests are handled meanwhile.
FindLivro(slot, op, id, body) ==
    /\ server = "listening"
    /\ pending[slot] = NULL
    /\ IF FindByPk(livros, id) = NULL
       THEN /\ req' = Request(op, id, body, NoQuery)
            /\ res' = NaoEncontrado
            /\ sqliteError' = FALSE
            /\ UNCHANGED pending
       ELSE /\ pending' = [pending EXCEPT ![slot] =
                              Some([op |-> op, id |-> id, body |-> body,
                                    livro |-> livros[id]])]
            /\ UNCHANGED <<req, res, sqliteError>>
    /\ UNCHANGED <<livros, sqlite_sequence, now, issued, server>>

\* The second half: the UPDATE or DELETE of the instance read earlier, then
\* res.json(livro) or res.json({ message }).
ResumeLivro(slot) ==
    /\ server = "listening"
    /\ pending[slot] # NULL
    /\ LET handler == Val(pending[slot])
       IN  /\ req' = Request(handler.op, handler.id, handler.body, NoQuery)
           /\ IF handler.op = "DELETE /livros/:id"
              THEN /\ livros' = Destroy(livros, handler.id)
                   /\ res' = JsonMessage("Livro removido")
                   /\ UNCHANGED now
              ELSE /\ Arrive
                   /\ LET updated == UpdateInstance(livros, handler.livro, handler.body, now')
                      IN  /\ livros' = updated.table
                          /\ res' = IF updated.ok THEN JsonLivro(200, updated.livro)
                                    ELSE JsonError(500, "Erro ao atualizar livro")
    /\ pending' = [pending EXCEPT ![slot] = NULL]
    /\ sqliteError' = FALSE
    /\ UNCHANGED <<sqlite_sequence, issued, server>>

\* ------------------------------------------------------------------ SQLite errors
\* The routes that query the table.
StoreRoutes ==
    {"GET /livros", "GET /livros/:id", "POST /livros",
     "PUT /livros/:id", "PATCH /livros/:id", "DELETE /livros/:id"}

\* The routes whose handler is wrapped in try / catch: all that query the
\* table but GET /livros/:id.
HasCatch(op) == op # "GET /livros/:id"

\* res.status(500).json({ error }) of each catch block.
CatchResponse(op) ==
    CASE op = "GET /livros" -> JsonError(500, "Erro ao buscar livros")
      [] op = "POST /livros" -> JsonError(500, "Erro ao criar livro")
      [] op \in {"PUT /livros/:id", "PATCH /livros/:id"} ->
            JsonError(500, "Erro ao atualizar livro")
      [] op = "DELETE /livros/:id" -> JsonError(500, "Erro ao remover livro")

\* No response: the request stays open until the client gives up.
NoResponse == Response(0, NULL, <<>>, "", "")

\* The answer of Express's own error handler: a 500 with an HTML page.
ExpressErrorPage == Response(500, NULL, <<>>, "", "")

\* A request whose query SQLite fails (the promise of findAll, findByPk,
\* create, update or destroy rejects); nothing is written.  With a catch
\* block the handler answers 500.  Without one the rejection leaves the
\* async handler: Express 4 never learns of it, so no response is sent, and
\* node either logs the unhandled rejection or exits on it; Express 5
\* passes it to its error handler.
SqliteFails(op, id) ==
    /\ server = "listening"
    /\ sqliteError' = TRUE
    /\ req' = Request(op, IF op \in {"GET /livros", "POST /livros"} THEN 0 ELSE id,
                      NoBody, NoQuery)
    /\ IF HasCatch(op)
       THEN /\ res' = CatchResponse(op)
            /\ UNCHANGED server
       ELSE \/ res' = NoResponse /\ server' = "listening"
            \/ res' = NoResponse /\ server' = "crashed"
            \/ res' = ExpressErrorPage /\ server' = "listening"
    /\ UNCHANGED <<livros, sqlite_sequence, now, issued, pending>>

\* ------------------------------------------------------------------ the app
\* String.prototype.trim(), the blank being the whitespace character.
TrimNothing(s) == s

RECURSIVE TrimStart(_)
TrimStart(s) == IF s # <<>> /\ Head(s) = " " THEN TrimStart(Tail(s)) ELSE s

RECURSIVE TrimEnd(_)
TrimEnd(s) ==
    IF s # <<>> /\ s[Len(s)] = " " THEN TrimEnd(SubSeq(s, 1, Len(s) - 1)) ELSE s

Trim(s) == TrimEnd(TrimStart(s))

\* `s || null`
OrNull(s) == IF s = <<>> THEN NULL ELSE Some(s)

\* `x || ''` of a nullable attribute of livroParam.
OrEmpty(m) == IF m = NULL THEN <<>> ELSE Val(m)

\* useState(livroParam?.x || '') of FormLivro opened with no parameter.
EmptyForm ==
    [titulo |-> <<>>, autor |-> <<>>, descricao |-> <<>>, genero |-> <<>>,
     imagemUrl |-> <<>>, temLink |-> FALSE, linkDownload |-> <<>>,
     livroParam |-> NULL, loading |-> FALSE, pedidos |-> <<>>]

\* The state hooks of FormLivro opened on a book; of livroParam only the id
\* is read afterwards. `pedidos` are the calls of salvar() waiting at their
\* `await api.put / api.post`.
FormOf(livro) ==
    [titulo |-> livro.titulo, autor |-> livro.autor,
     descricao |-> OrEmpty(livro.descricao), genero |-> OrEmpty(livro.genero),
     imagemUrl |-> OrEmpty(livro.imagemUrl),
     temLink |-> OrEmpty(livro.linkDownload) # <<>>,
     linkDownload |-> OrEmpty(livro.linkDownload),
     livroParam |-> Some(livro.id), loading |-> FALSE, pedidos |-> <<>>]

\* What the user leaves in the fields of the form before pressing the button.
FormInputs ==
    { EmptyForm,
      [EmptyForm EXCEPT !.titulo = <<" ">>, !.autor = <<"X">>],
      [EmptyForm EXCEPT !.titulo = <<" ", "A", " ">>],
      [EmptyForm EXCEPT !.titulo = <<" ", "A", " ">>, !.autor = <<"X", " ">>],
      [EmptyForm EXCEPT !.titulo = <<"A">>, !.autor = <<"X">>, !.descricao = <<" ">>,
                        !.genero = <<" ">>, !.temLink = TRUE, !.linkDownload = <<" ">>],
      [EmptyForm EXCEPT !.titulo = <<"A", "b">>, !.autor = <<"X">>,
                        !.descricao = <<"F", " ">>, !.genero = <<" ", "F">>,
                        !.imagemUrl = <<"F">>, !.temLink = TRUE,
                        !.linkDownload = <<"F">>],
      [EmptyForm EXCEPT !.titulo = <<"A", "b">>, !.autor = <<"X">>,
                        !.descricao = <<"F", " ">>, !.genero = <<" ", "F">>,
                        !.imagemUrl = <<"F">>, !.temLink = FALSE,
                        !.linkDownload = <<"F">>] }

\* const dados: Livro = { ... } of salvar()
Dados(f) ==
    [titulo |-> Some(Trim(f.titulo)),
     autor |-> Some(Trim(f.autor)),
     descricao |-> OrNull(Trim(f.descricao)),
     genero |-> OrNull(Trim(f.genero)),
     imagemUrl |-> OrNull(f.imagemUrl),
     linkDownload |-> IF f.temLink THEN OrNull(Trim(f.linkDownload)) ELSE NULL]

\* Alert.alert texts.
PreenchaTituloEAutor == "Preencha titulo e autor."
LivroSalvo == "Livro salvo com sucesso."
RequestFailed == "Request failed"
StatusAtualizado == "Status de disponibilidade atualizado!"
ErroAoAtualizar == "Erro ao atualizar disponibilidade"

\* axios rejects the promise of a response whose status is not 2xx.
Rejects(response) == response.status < 200 \/ response.status >= 300

\* A request that comes from another client than the app's screens.
Direct == UNCHANGED <<form, detalhes, alerta, lista>>

\* A save button that never disables.
DisabledNever(f) == FALSE

\* disabled={loading} of the save button.
Disabled(f) == f.loading

\* The form screen is opened: with no parameter, or on a stored book.
AbrirForm(param) ==
    /\ alerta = NULL
    /\ form.pedidos = <<>>
    /\ form' = IF param = NULL THEN EmptyForm ELSE FormOf(Val(param))
    /\ UNCHANGED <<livros, sqlite_sequence, now, issued, req, res, server,
                   sqliteError, pending, detalhes, alerta, lista>>

\* onChangeText={setTitulo} ..., escolherImagem, the Switch of temLink.
Preencher(f) ==
    /\ alerta = NULL
    /\ form' = [f EXCEPT !.livroParam = form.livroParam, !.loading = form.loading,
                         !.pedidos = form.pedidos]
    /\ UNCHANGED <<livros, sqlite_sequence, now, issued, req, res, server,
                   sqliteError, pending, detalhes, alerta, lista>>

\* The save button is pressed: salvar() up to its await. The check of
\* titulo and autor, then `dados`, setLoading(true) and the PUT or POST
\* sent.
Salvar ==
    /\ alerta = NULL
    /\ ~Disabled(form)
    /\ Len(form.pedidos) < MaxPending
    /\ IF Trim(form.titulo) = <<>> \/ Trim(form.autor) = <<>>
       THEN /\ alerta' = Some(PreenchaTituloEAutor)
            /\ UNCHANGED form
       ELSE /\ form' = [form EXCEPT
                            !.loading = TRUE,
                            !.pedidos = Append(@, [id |-> form.livroParam,
                                                   dados |-> Dados(form)])]
            /\ UNCHANGED alerta
    /\ UNCHANGED <<livros, sqlite_sequence, now, issued, req, res, server,
                   sqliteError, pending, detalhes, lista>>

\* The server handles the PUT or POST of a salvar() and the call resumes:
\* the Alert of the outcome, then setLoading(false) in `finally`.
SalvarResposta(i) ==
    /\ i \in 1 .. Len(form.pedidos)
    /\ IF form.pedidos[i].id # NULL
       THEN PutLivro(Val(form.pedidos[i].id), form.pedidos[i].dados)
       ELSE PostLivros(form.pedidos[i].dados)
    /\ alerta' = IF Rejects(res') THEN Some(RequestFailed) ELSE Some(LivroSalvo)
    /\ form' = [form EXCEPT
                    !.loading = FALSE,
                    !.pedidos = SubSeq(@, 1, i - 1) \o SubSeq(@, i + 1, Len(@))]
    /\ UNCHANGED <<detalhes, lista>>

\* The list screen hands an item of the list it fetched to DetalhesPage:
\* router.push(`/(tabs)/detalhes?livro=${payload}`), JSON.parse(params.livro).
AbrirDetalhes ==
    /\ alerta = NULL
    /\ req.op = "GET /livros"
    /\ \E i \in 1 .. Len(res.livros) : detalhes' = Some(res.livros[i])
    /\ UNCHANGED <<livros, sqlite_sequence, now, issued, req, res, server,
                   sqliteError, pending, form, alerta, lista>>

\* alternarDisponibilidade(): PATCH of the negation of the `disponivel` the
\* screen was opened with.
AlternarDisponibilidade ==
    /\ alerta = NULL
    /\ detalhes # NULL
    /\ PatchLivro(Val(detalhes).id, [disponivel |-> Some(~Val(detalhes).disponivel)])
    /\ alerta' = IF Rejects(res') THEN Some(ErroAoAtualizar) ELSE Some(StatusAtualizado)
    /\ UNCHANGED <<form, detalhes, lista>>

\* The button of the Alert; after a change of availability its onPress is
\* router.back(), which closes the details screen.
Ok ==
    /\ alerta # NULL
    /\ alerta' = NULL
    /\ detalhes' = IF alerta = Some(StatusAtualizado) THEN NULL ELSE detalhes
    /\ UNCHANGED <<livros, sqlite_sequence, now, issued, req, res, server,
                   sqliteError, pending, form, lista>>

\* ------------------------------------------------------------------ the list screen
\* useState([]), useState(""), useState(false) of ListaLivros, and no GET
\* /livros in flight.
ListaVazia ==
    [livros |-> <<>>, busca |-> <<>>, refreshing |-> FALSE,
     pedidos |-> [slot \in Slots |-> NULL]]

\* carregarLivros() up to its await: setRefreshing(true) and
\* api.get("/livros", { params: { titulo: busca } }) with the `busca` given.
CarregarLivros(l, slot, busca) ==
    [l EXCEPT !.refreshing = TRUE,
              !.pedidos[slot] = Some([titulo |-> busca, res |-> NULL])]

\* What the user types in the search bar.
Buscas == { <<>>, <<"b">>, <<LowerEacute>> }

\* onChangeText={setBusca}, or the button that clears the bar; the effect
\* on [busca] then calls carregarLivros().
SetBusca(slot, busca) ==
    /\ alerta = NULL
    /\ busca # lista.busca
    /\ lista.pedidos[slot] = NULL
    /\ lista' = CarregarLivros([lista EXCEPT !.busca = busca], slot, busca)
    /\ UNCHANGED <<livros, sqlite_sequence, now, issued, req, res, server,
                   sqliteError, pending, form, detalhes, alerta>>

\* onSubmitEditing={carregarLivros} and onRefresh={carregarLivros}.
Recarregar(slot) ==
    /\ alerta = NULL
    /\ lista.pedidos[slot] = NULL
    /\ lista' = CarregarLivros(lista, slot, lista.busca)
    /\ UNCHANGED <<livros, sqlite_sequence, now, issued, req, res, server,
                   sqliteError, pending, form, detalhes, alerta>>

\* The server handles a GET /livros?titulo=... of the list screen; the
\* response is on its way.
ServeLista(slot) ==
    /\ lista.pedidos[slot] # NULL
    /\ Val(lista.pedidos[slot]).res = NULL
    /\ GetLivros([NoQuery EXCEPT !.titulo = Some(Val(lista.pedidos[slot]).titulo)])
    /\ lista' = [lista EXCEPT !.pedidos[slot] =
                     Some([Val(lista.pedidos[slot]) EXCEPT !.res = Some(res')])]
    /\ UNCHANGED <<form, detalhes, alerta>>

\* carregarLivros() from its await on: setLivros(res.data), or the catch
\* that only logs, then setRefreshing(false).
ReceberLista(slot) ==
    /\ lista.pedidos[slot] # NULL
    /\ Val(lista.pedidos[slot]).res # NULL
    /\ LET response == Val(Val(lista.pedidos[slot]).res)
       IN  lista' = [lista EXCEPT
                        !.livros = IF Rejects(response) THEN @ ELSE response.livros,
                        !.refreshing = FALSE,
                        !.pedidos[slot] = NULL]
    /\ UNCHANGED <<livros, sqlite_sequence, now, issued, req, res, server,
                   sqliteError, pending, form, detalhes, alerta>>

\* ------------------------------------------------------------------ first revision
\* The first revision of the API and of DetalhesPage, which lend books.  Its
\* Livro model has the loan columns and none of descricao, imagemUrl,
\* linkDownload.
AttributesV1 ==
    {"id", "titulo", "autor", "ano", "genero", "disponivel",
     "emprestadoPara", "dataDevolucao", "createdAt", "updatedAt"}

NullableAttributesV1 == {"ano", "genero", "emprestadoPara", "dataDevolucao"}

\* Days a text of the form AAAA-MM-DD can name.
IsoDays == {"2025-01-31"}

InvalidDate == <<"Invalid Date">>

\* new Date(text): the day at 00:00 UTC when the text is an ISO day.
NewDate(text) ==
    IF Len(text) = 1 /\ text[1] \in IsoDays THEN <<"Date", text[1]>> ELSE InvalidDate

\* DataTypes.DATE sanitizer of set(): a truthy value that is no Date goes
\* through new Date; the empty string stays.
Sanitize(value) == IF value = <<>> THEN value ELSE NewDate(value)

\* What the UPDATE binds for a DATE: the formatted date, or the text moment
\* gives for what is no date.
Stringify(value) ==
    IF Len(value) = 2 /\ value[1] = "Date"
    THEN <<value[2], " 00:00:00.000 +00:00">>
    ELSE <<"Invalid date">>

\* What a SELECT makes of a DATE column: new Date(column).
Parse(column) ==
    IF Len(column) = 2 /\ column[1] \in IsoDays THEN <<"Date", column[1]>>
    ELSE InvalidDate

\* Date.prototype.toJSON: the ISO string, null for an invalid date.
ToJSON(date) ==
    IF date = InvalidDate THEN NULL ELSE Some(<<date[2], "T", "00:00:00.000Z">>)

\* iso.split('T')[0]
RECURSIVE SplitT(_)
SplitT(iso) ==
    IF iso = <<>> \/ Head(iso) = "T" THEN <<>> ELSE <<Head(iso)>> \o SplitT(Tail(iso))

\* res.json of a row read from the table.
JsonV1(row) ==
    [row EXCEPT !["dataDevolucao"] = IF @ = NULL THEN NULL ELSE ToJSON(Parse(Val(@)))]

\* The value the table stores for attribute k when the body gives m.
ColumnV1(k, m) ==
    IF k = "dataDevolucao"
    THEN IF m = NULL THEN NULL ELSE Some(Stringify(Sanitize(Val(m))))
    ELSE IF k \in NullableAttributesV1 THEN m
    ELSE Val(m)

\* Livro.create({ titulo, autor }) of the first revision.
CreateV1(table, seq, body, t) ==
    LET rowid == seq + 1
        row   == [k \in AttributesV1 |->
                    IF k = "id" THEN rowid
                    ELSE IF k \in {"createdAt", "updatedAt"} THEN t
                    ELSE IF k = "disponivel" THEN TRUE
                    ELSE IF k \in Keys(body) THEN ColumnV1(k, body[k])
                    ELSE NULL]
    IN  [table |-> [i \in DOMAIN table \cup {rowid} |->
                       IF i = rowid THEN row ELSE table[i]],
         seq |-> rowid, novo |-> JsonV1(row)]

\* livro.update(body) of the first revision.
UpdateV1(row, body, t) ==
    LET fields  == (Keys(body) \cap AttributesV1) \ ReadOnlyAttributes
        set     == [k \in AttributesV1 |->
                      IF k \in fields THEN ColumnV1(k, body[k]) ELSE row[k]]
        stamped == IF fields # {} THEN [set EXCEPT !["updatedAt"] = t] ELSE set
        invalid == \E k \in fields \cap NotNullAttributes : body[k] = NULL
    IN  IF invalid THEN [ok |-> FALSE, row |-> row]
        ELSE IF set = row THEN [ok |-> TRUE, row |-> row]
        ELSE [ok |-> TRUE, row |-> stamped]

\* app.post('/livros') of the first revision.
PostLivrosV1(body) ==
    /\ Served
    /\ Arrive
    /\ LET created == CreateV1(livros, sqlite_sequence, body, now')
       IN  /\ created.seq <= MaxId
           /\ req' = Request("POST /livros", 0, body, NoQuery)
           /\ livros' = created.table
           /\ sqlite_sequence' = created.seq
           /\ res' = JsonLivro(201, created.novo)
           /\ issued' = issued \cup {created.seq}

\* app.get('/livros') of the first revision, with no query.
GetLivrosV1 ==
    /\ Served
    /\ req' = Request("GET /livros", 0, NoBody, NoQuery)
    /\ res' = LET rows == FindAll(livros, NoQuery)
              IN  JsonLivros([i \in 1 .. Len(rows) |-> JsonV1(rows[i])])
    /\ UNCHANGED <<livros, sqlite_sequence, issued, now>>

\* app.patch('/livros/:id') of the first revision.
PatchLivroV1(id, body) ==
    /\ Served
    /\ req' = Request("PATCH /livros/:id", id, body, NoQuery)
    /\ UNCHANGED <<sqlite_sequence, issued>>
    /\ IF FindByPk(livros, id) = NULL
       THEN /\ res' = NaoEncontrado
            /\ UNCHANGED <<livros, now>>
       ELSE /\ Arrive
            /\ LET updated == UpdateV1(livros[id], body, now')
               IN  IF updated.ok
                   THEN /\ livros' = [livros EXCEPT ![id] = updated.row]
                        /\ res' = JsonLivro(200, JsonV1(updated.row))
                   ELSE /\ res' = JsonError(500, "Erro ao atualizar livro")
                        /\ UNCHANGED livros

\* DetalhesPage of the first revision opened on an item of the list: the
\* parsed `livro` and the state hooks nomePessoa and dataDevolucao.
DetalhesV1(livro) ==
    [livro |-> livro,
     nomePessoa |-> OrEmpty(livro.emprestadoPara),
     dataDevolucao |-> IF livro.dataDevolucao = NULL THEN <<>>
                       ELSE SplitT(Val(livro.dataDevolucao))]

AbrirDetalhesV1 ==
    /\ alerta = NULL
    /\ req.op = "GET /livros"
    /\ \E i \in 1 .. Len(res.livros) : detalhes' = Some(DetalhesV1(res.livros[i]))
    /\ UNCHANGED <<livros, sqlite_sequence, now, issued, req, res, server,
                   sqliteError, pending, form, alerta, lista>>

\* What the user types as the borrower and as the day of return.
NomesPessoa == { <<>>, <<"X">> }
DatasDevolucao == { <<>>, <<"2025-01-31">>, <<"31/01/2025">> }

\* onChangeText={setNomePessoa}, onChangeText={setDataDevolucao}: the
\* inputs of a book the screen shows as available.
Digitar(nome, data) ==
    /\ alerta = NULL
    /\ detalhes # NULL
    /\ Val(detalhes).livro.disponivel
    /\ detalhes' = Some([Val(detalhes) EXCEPT !.nomePessoa = nome,
                                               !.dataDevolucao = data])
    /\ UNCHANGED <<livros, sqlite_sequence, now, issued, req, res, server,
                   sqliteError, pending, form, alerta, lista>>

ErroAoEmprestar == "Erro ao emprestar livro"
ErroAoDevolver == "Erro ao devolver livro"
ErroAoExcluir == "Erro ao excluir livro"

\* The outcome of a request of DetalhesPage: router.back(), or the Alert.
VoltarOuAlerta(erro) ==
    /\ detalhes' = IF Rejects(res') THEN detalhes ELSE NULL
    /\ alerta' = IF Rejects(res') THEN Some(erro) ELSE NULL
    /\ UNCHANGED <<form, lista>>

\* emprestar(), the button of a book shown as available.
Emprestar ==
    /\ alerta = NULL
    /\ detalhes # NULL
    /\ Val(detalhes).livro.disponivel
    /\ PatchLivroV1(Val(detalhes).livro.id,
                    [disponivel |-> Some(FALSE),
                     emprestadoPara |-> Some(Val(detalhes).nomePessoa),
                     dataDevolucao |-> Some(Val(detalhes).dataDevolucao)])
    /\ VoltarOuAlerta(ErroAoEmprestar)

\* devolver(), the button of a book shown as lent.
Devolver ==
    /\ alerta = NULL
    /\ detalhes # NULL
    /\ ~Val(detalhes).livro.disponivel
    /\ PatchLivroV1(Val(detalhes).livro.id,
                    [disponivel |-> Some(TRUE), emprestadoPara |-> NULL,
                     dataDevolucao |-> NULL])
    /\ VoltarOuAlerta(ErroAoDevolver)

\* excluir()
Excluir ==
    /\ alerta = NULL
    /\ detalhes # NULL
    /\ DeleteLivro(Val(detalhes).livro.id)
    /\ VoltarOuAlerta(ErroAoExcluir)

\* ------------------------------------------------------------------ specification
\* After start(): sequelize.sync() has created an empty table and the
\* server listens; the app shows an empty form and no details screen, and
\* the list screen has mounted: its effect has called carregarLivros().
Init ==
    /\ livros = [i \in {} |-> NULL]
    /\ sqlite_sequence = 0
    /\ now = 0
    /\ issued = {}
    /\ req = Request("GET /", 0, NoBody, NoQuery)
    /\ res = JsonMessage("ok")
    /\ server = "listening"
    /\ sqliteError = FALSE
    /\ pending = [slot \in Slots |-> NULL]
    /\ form = EmptyForm
    /\ detalhes = NULL
    /\ alerta = NULL
    /\ lista = CarregarLivros(ListaVazia, 1, <<>>)

Next ==
    \/ GetRoot /\ Direct
    \/ \E query \in Queries : GetLivros(query) /\ Direct
    \/ \E id \in Ids : GetLivro(id) /\ Direct
    \/ \E body \in PostBodies : PostLivros(body) /\ Direct
    \/ \E id \in Ids, body \in UpdateBodies : PutLivro(id, body) /\ Direct
    \/ \E id \in Ids, body \in UpdateBodies : PatchLivro(id, body) /\ Direct
    \/ \E id \in Ids : DeleteLivro(id) /\ Direct

Spec == Init /\ [][Next]_vars

\* The service with SQLite errors.
NextFailing ==
    \/ Next
    \/ \E op \in StoreRoutes, id \in Ids : SqliteFails(op, id) /\ Direct

SpecFailing == Init /\ [][NextFailing]_vars

\* The form screen against the service, next to another client that lends
\* and removes books.
NextForm ==
    \/ \E param \in {NULL} \cup {Some(livros[i]) : i \in DOMAIN livros} : AbrirForm(param)
    \/ \E f \in FormInputs : Preencher(f)
    \/ Salvar
    \/ \E i \in 1 .. MaxPending : SalvarResposta(i)
    \/ Ok
    \/ \E id \in Ids : PatchLivro(id, [disponivel |-> Some(FALSE)]) /\ Direct
    \/ \E id \in Ids : DeleteLivro(id) /\ Direct

SpecForm == Init /\ [][NextForm]_vars

\* Bodies with which another client changes the availability of a book.
DisponivelBodies == { [disponivel |-> Some(FALSE)], [disponivel |-> Some(TRUE)] }

\* The details screen, next to another client that lists, creates and
\* changes books.
NextDetalhes ==
    \/ GetLivros(NoQuery) /\ Direct
    \/ PostLivros([titulo |-> Some(<<"A", "b">>), autor |-> Some(<<"X">>)]) /\ Direct
    \/ \E id \in Ids, body \in DisponivelBodies : PatchLivro(id, body) /\ Direct
    \/ \E id \in Ids : DeleteLivro(id) /\ Direct
    \/ AbrirDetalhes
    \/ AlternarDisponibilidade
    \/ Ok

SpecDetalhes == Init /\ [][NextDetalhes]_vars

\* Requests to the routes by id that overlap.
NextConcurrent ==
    \/ PostLivros([titulo |-> Some(<<"A", "b">>), autor |-> Some(<<"X">>)]) /\ Direct
    \/ \E slot \in Slots, id \in Ids, body \in ConcurrentBodies :
          \/ FindLivro(slot, "PUT /livros/:id", id, body) /\ Direct
          \/ FindLivro(slot, "PATCH /livros/:id", id, body) /\ Direct
    \/ \E slot \in Slots, id \in Ids :
          FindLivro(slot, "DELETE /livros/:id", id, NoBody) /\ Direct
    \/ \E slot \in Slots : ResumeLivro(slot) /\ Direct

SpecConcurrent == Init /\ [][NextConcurrent]_vars

\* The list screen, next to another client that creates books.
NextLista ==
    \/ \E body \in {[titulo |-> Some(<<"A", "b">>), autor |-> Some(<<"X">>)],
                     [titulo |-> Some(<<LowerEacute>>), autor |-> Some(<<"y">>)]} :
          PostLivros(body) /\ Direct
    \/ \E slot \in Slots, busca \in Buscas : SetBusca(slot, busca)
    \/ \E slot \in Slots : Recarregar(slot)
    \/ \E slot \in Slots : ServeLista(slot)
    \/ \E slot \in Slots : ReceberLista(slot)

SpecLista == Init /\ [][NextLista]_vars

\* The details screen of the first revision against its API, next to
\* another client that creates and removes books.
NextEmprestimo ==
    \/ PostLivrosV1([titulo |-> Some(<<"A", "b">>), autor |-> Some(<<"X">>)]) /\ Direct
    \/ \E id \in Ids : DeleteLivro(id) /\ Direct
    \/ GetLivrosV1 /\ Direct
    \/ AbrirDetalhesV1
    \/ \E nome \in NomesPessoa, data \in DatasDevolucao : Digitar(nome, data)
    \/ Emprestar
    \/ Devolver
    \/ Excluir
    \/ Ok

SpecEmprestimo == Init /\ [][NextEmprestimo]_vars

\* ------------------------------------------------------------------ claims
IsPost == req.op = "POST /livros"
IsList == req.op = "GET /livros"
IsUpdate == req.op \in {"PUT /livros/:id", "PATCH /livros/:id"}
IsDelete == req.op = "DELETE /livros/:id"

\* String.prototype.trim() leaves the empty string.
Blank(s) == \A i \in 1 .. Len(s) : s[i] = " "

\* The body gives no usable value for key k: missing, null, or blank.
MissingOrBlank(body, k) ==
    k \notin Keys(body) \/ body[k] = NULL \/ Blank(Val(body[k]))

Rows(table) == {table[i] : i \in DOMAIN table}

Range(seq) == {seq[i] : i \in 1 .. Len(seq)}

\* C1: a POST /livros whose titulo or autor is missing, null, empty or
\* blank is answered with an error and leaves the table as it was.
C1_BlankCreateRejected ==
    [][ (req'.op = "POST /livros"
            /\ (MissingOrBlank(req'.body, "titulo") \/ MissingOrBlank(req'.body, "autor")))
        => (res'.status >= 400 /\ livros' = livros) ]_vars

\* C2: no stored book has a titulo or an autor that is empty or blank.
C2_NoBlankStored ==
    \A row \in Rows(livros) : ~Blank(row.titulo) /\ ~Blank(row.autor)

\* C3: the id a successful POST /livros returns was returned by no earlier
\* successful POST, deleted since or not.
C3_IdNeverReused ==
    [][ (req'.op = "POST /livros" /\ res'.status = 201)
        => Val(res'.livro)["id"] \notin issued ]_vars

\* C4: GET /livros filters on availability only for disponivel=true and
\* disponivel=false; with any other value, or none, books of both
\* availabilities are returned.
C4_DisponivelLiteral ==
    IsList =>
        LET others == [req.query EXCEPT !.disponivel = NULL]
            wanted(row) ==
                /\ Where(others, row)
                /\ req.query.disponivel = Some("true") => row.disponivel
                /\ req.query.disponivel = Some("false") => ~row.disponivel
        IN  Range(res.livros) = {row \in Rows(livros) : wanted(row)}

C6_DeletedIsNotFound ==
    (IsDelete /\ res.status = 200)
        => /\ GetLivroResponse(livros, req.id).status = 404
           /\ DeleteLivroResponse(livros, req.id).status = 404

\* A DELETE has succeeded while another book stays in the table.
C6_Witness ==
    /\ IsDelete
    /\ res.status = 200
    /\ res.message = "Livro removido"
    /\ DOMAIN livros # {}

\* C7: GET, PUT, PATCH and DELETE of an id that is not in the table are
\* answered 404 and leave the table as it was.
C7_UnknownIdNotFound ==
    [][ (/\ req'.op \in {"GET /livros/:id", "PUT /livros/:id",
                         "PATCH /livros/:id", "DELETE /livros/:id"}
         /\ req'.id \notin DOMAIN livros)
        => (res'.status = 404 /\ livros' = livros) ]_vars

\* A PUT with a non-empty body of an id the non-empty table does not hold
\* has been answered 404.
C7_Witness ==
    /\ req.op = "PUT /livros/:id"
    /\ Keys(req.body) # {}
    /\ req.id \notin DOMAIN livros
    /\ DOMAIN livros # {}
    /\ res.status = 404

\* Optional fields of a book, those of the loan included.
OptionalFields == NullableAttributes \cup {"emprestadoPara", "dataDevolucao"}

\* C8: after a successful POST /livros with only titulo and autor, GET of
\* the returned id yields that titulo and autor, disponivel = true and
\* every optional field null or absent.
C8_MinimalCreateRoundTrip ==
    (IsPost /\ res.status = 201 /\ Keys(req.body) = {"titulo", "autor"})
        => LET got == GetLivroResponse(livros, Val(res.livro)["id"])
           IN  /\ got.status = 200
               /\ Val(got.livro)["titulo"] = Val(req.body["titulo"])
               /\ Val(got.livro)["autor"] = Val(req.body["autor"])
               /\ Val(got.livro)["disponivel"] = TRUE
               /\ \A k \in OptionalFields :
                     k \in DOMAIN Val(got.livro) => Val(got.livro)[k] = NULL

\* A book has been created from titulo and autor alone, next to another.
C8_Witness ==
    /\ IsPost
    /\ res.status = 201
    /\ Keys(req.body) = {"titulo", "autor"}
    /\ Cardinality(DOMAIN livros) = 2

\* Unicode lower case of a character.
ToLowerCase(c) == IF c = UpperEacute THEN LowerEacute ELSE AsciiLower(c)

Fold(s) == [i \in 1 .. Len(s) |-> ToLowerCase(s[i])]

Contains(s, part) ==
    \E i \in 1 .. (Len(s) - Len(part) + 1) : SubSeq(s, i, i + Len(part) - 1) = part

ContainsIgnoringCase(s, part) == Contains(Fold(s), Fold(part))

\* C9: GET /livros answers 200 with exactly the stored books whose titulo
\* contains the titulo parameter and whose autor contains the autor
\* parameter, both ignoring case, and whose availability is the one asked
\* for; each once.
C9_ListExactlyMatching ==
    (IsList /\ req.query.disponivel \in {NULL, Some("true"), Some("false")})
        => LET q == req.query
               matches(row) ==
                   /\ q.titulo # NULL => ContainsIgnoringCase(row.titulo, Val(q.titulo))
                   /\ q.autor # NULL => ContainsIgnoringCase(row.autor, Val(q.autor))
                   /\ q.disponivel # NULL => row.disponivel = (Val(q.disponivel) = "true")
           IN  /\ res.status = 200
               /\ Len(res.livros) = Cardinality(Range(res.livros))
               /\ Range(res.livros) = {row \in Rows(livros) : matches(row)}

\* C10: the list GET /livros returns is in ascending order of titulo.
C10_ListSortedByTitulo ==
    IsList =>
        \A i \in 1 .. (Len(res.livros) - 1) :
            BinaryLeq(res.livros[i].titulo, res.livros[i + 1].titulo)

\* A list of two books with different titles, the later created first.
C10_Witness ==
    /\ IsList
    /\ Len(res.livros) = 2
    /\ res.livros[1].titulo # res.livros[2].titulo
    /\ res.livros[1].id > res.livros[2].id

C12_PutReplacesAll ==
    [][ (req'.op = "PUT /livros/:id" /\ res'.status = 200)
        => \A k \in NullableAttributes \ Keys(req'.body) :
              livros'[req'.id][k] = NULL ]_vars

\* C13: no step changes the id or the createdAt of a stored book; a PUT or
\* PATCH, whatever its body and its answer, leaves the book in the table
\* with both as they were.
C13_IdAndCreatedAtKept ==
    [][ /\ \A i \in DOMAIN livros \cap DOMAIN livros' :
              /\ livros'[i].id = livros[i].id
              /\ livros'[i].createdAt = livros[i].createdAt
        /\ (req'.op \in {"PUT /livros/:id", "PATCH /livros/:id"}
                /\ req'.id \in DOMAIN livros)
           => req'.id \in DOMAIN livros' ]_vars

\* An update whose body carries another id and another createdAt has been
\* written to a book.
C13_Witness ==
    /\ IsUpdate
    /\ res.status = 200
    /\ {"id", "createdAt", "titulo"} \subseteq Keys(req.body)
    /\ Val(req.body["id"]) # req.id
    /\ Val(req.body["createdAt"]) # livros[req.id].createdAt
    /\ livros[req.id].titulo = Val(req.body["titulo"])

\* C14: every stored book has updatedAt >= createdAt.
C14_UpdatedNotBeforeCreated ==
    \A row \in Rows(livros) : row.updatedAt >= row.createdAt

\* C15: every request is answered and the process stays up; a request whose
\* query failed in SQLite is answered 500 with an error message.
C15_EveryRequestAnswered ==
    /\ server = "listening"
    /\ res # NoResponse
    /\ sqliteError => (res.status = 500 /\ res.error # "")

\* The response carries the stored book: every attribute it holds, but
\* updatedAt, is the one of the row.
CarriesRow(response, table, id) ==
    /\ response.livro # NULL
    /\ id \in DOMAIN table
    /\ \A k \in DOMAIN Val(response.livro) \ {"updatedAt"} :
          Val(response.livro)[k] = table[id][k]

\* C16: the status is fixed by the operation and its outcome: 201 with the
\* book for a create, 200 for the root, a list, a found get (with the
\* book), a found update (with the book) and a found delete (with a
\* message); 404 exactly for an id the table does not hold; 500 exactly
\* when create or update threw.
C16_FixedStatusPerOperation ==
    [][ LET op == req'.op
            id == req'.id
            found == id \in DOMAIN livros
        IN  /\ res'.status \in {200, 201, 404, 500}
            /\ op \in {"GET /", "GET /livros"} => res'.status = 200
            /\ op = "GET /" => res'.message # ""
            /\ op = "POST /livros" =>
                  IF Create(livros, sqlite_sequence, req'.body, now').ok
                  THEN /\ res'.status = 201
                       /\ res'.livro # NULL
                       /\ CarriesRow(res', livros', Val(res'.livro)["id"])
                  ELSE res'.status = 500 /\ res'.error # ""
            /\ op \in {"GET /livros/:id", "PUT /livros/:id",
                       "PATCH /livros/:id", "DELETE /livros/:id"} =>
                  (res'.status = 404 <=> ~found)
            /\ (op = "GET /livros/:id" /\ found) =>
                  res'.status = 200 /\ res'.livro = Some(livros[id])
            /\ (op \in {"PUT /livros/:id", "PATCH /livros/:id"} /\ found) =>
                  IF Update(livros[id], req'.body, now').ok
                  THEN res'.status = 200 /\ CarriesRow(res', livros', id)
                  ELSE res'.status = 500 /\ res'.error # ""
            /\ (op = "DELETE /livros/:id" /\ found) =>
                  res'.status = 200 /\ res'.message # "" ]_vars

\* A second book has been created with its optional fields and answered
\* 201 with them.
C16_Witness ==
    /\ IsPost
    /\ res.status = 201
    /\ Val(res.livro)["id"] = 2
    /\ "genero" \in DOMAIN Val(res.livro)
    /\ Val(res.livro)["genero"] = livros[2].genero

\* C17: the `disponivel` of a stored book changes only in a PUT or PATCH of
\* that book whose body names `disponivel`.
C17_DisponivelOnlyByUpdate ==
    [][ \A i \in DOMAIN livros \cap DOMAIN livros' :
            livros'[i].disponivel # livros[i].disponivel
            => /\ req'.op \in {"PUT /livros/:id", "PATCH /livros/:id"}
               /\ req'.id = i
               /\ "disponivel" \in Keys(req'.body) ]_vars

\* A book made unavailable has since been updated, at a later time, by a
\* body without `disponivel`, next to a book that is available.
C17_Witness ==
    /\ IsUpdate
    /\ res.status = 200
    /\ "disponivel" \notin Keys(req.body)
    /\ livros[req.id].disponivel = FALSE
    /\ livros[req.id].updatedAt > livros[req.id].createdAt
    /\ \E i \in DOMAIN livros : livros[i].disponivel

\* The string has no blank at either end.
Trimmed(s) == s = <<>> \/ (s[1] # " " /\ s[Len(s)] # " ")

\* t is s without the blanks at its ends.
IsTrimOf(t, s) ==
    /\ Trimmed(t)
    /\ \E i \in 0 .. Len(s), j \in 0 .. Len(s) :
          /\ i <= j
          /\ Blank(SubSeq(s, 1, i))
          /\ Blank(SubSeq(s, j + 1, Len(s)))
          /\ SubSeq(s, i + 1, j) = t

\* C18: salvar() sends nothing when titulo or autor is blank, only the
\* alert; what it sends has the trimmed, non-empty titulo and autor, and null
\* for every of descricao, genero, imagemUrl and linkDownload that is empty
\* in the form; the request the server gets has that body.
C18_SalvarPayload ==
    [][ /\ (alerta = NULL /\ alerta' = Some(PreenchaTituloEAutor))
           => /\ Blank(form.titulo) \/ Blank(form.autor)
              /\ UNCHANGED <<req, res, livros, sqlite_sequence, form>>
        /\ (Blank(form.titulo) \/ Blank(form.autor))
           => Len(form'.pedidos) <= Len(form.pedidos)
        /\ Len(form'.pedidos) > Len(form.pedidos)
           => LET dados == form'.pedidos[Len(form'.pedidos)].dados
              IN  /\ \A k \in {"titulo", "autor"} :
                        /\ dados[k] # NULL
                        /\ Val(dados[k]) # <<>>
                        /\ IsTrimOf(Val(dados[k]), form[k])
                  /\ \A k \in {"descricao", "genero", "imagemUrl", "linkDownload"} :
                        form[k] = <<>> => dados[k] = NULL
        /\ Len(form'.pedidos) < Len(form.pedidos)
           => /\ req'.op \in {"POST /livros", "PUT /livros/:id"}
              /\ \E i \in 1 .. Len(form.pedidos) : req'.body = form.pedidos[i].dados
      ]_vars

\* salvar() has sent a book whose titulo it trimmed and whose empty
\* imagemUrl it sent as null, and the server has stored it.
C18_Witness ==
    /\ alerta = Some(LivroSalvo)
    /\ IsPost
    /\ res.status = 201
    /\ form.titulo # Val(req.body["titulo"])
    /\ form.imagemUrl = <<>>
    /\ req.body["imagemUrl"] = NULL
    /\ req.body["descricao"] = NULL

\* C19: when alternarDisponibilidade() succeeds, the `disponivel` the table
\* holds for the book is the negation of the one it held just before.
C19_AlternarInverts ==
    [][ (alerta = NULL /\ alerta' = Some(StatusAtualizado))
        => livros'[Val(detalhes).id].disponivel = ~livros[Val(detalhes).id].disponivel ]_vars

\* C20: a PUT or PATCH that was suspended between findByPk and update
\* answers 200 only when the table holds the book at the time of the write,
\* and 404 when it no longer does.
C20_UpdateOnlyOfStoredBook ==
    [][ \A slot \in Slots :
            (/\ pending[slot] # NULL
             /\ pending'[slot] = NULL
             /\ Val(pending[slot]).op \in {"PUT /livros/:id", "PATCH /livros/:id"})
            => /\ res'.status = 200 => Val(pending[slot]).id \in DOMAIN livros
               /\ Val(pending[slot]).id \notin DOMAIN livros => res'.status = 404 ]_vars

\* C21: a DELETE that was suspended between findByPk and destroy answers
\* 200 exactly when the table still holds the book at the time of the
\* destroy, and 404 otherwise; so of two that overlap one answers 404.
C21_OneDeleteRemoves ==
    [][ \A slot \in Slots :
            (/\ pending[slot] # NULL
             /\ pending'[slot] = NULL
             /\ Val(pending[slot]).op = "DELETE /livros/:id")
            => /\ res'.status = 200 <=> Val(pending[slot]).id \in DOMAIN livros
               /\ res'.status = 404 <=> Val(pending[slot]).id \notin DOMAIN livros ]_vars

\* C22: the write of a PUT or PATCH that was suspended after findByPk puts
\* the values of its body into the stored book and leaves every other
\* field but updatedAt as the table holds it by then, so what an
\* overlapping update of other fields wrote meanwhile stays.
C22_DisjointUpdatesBothKept ==
    [][ \A slot \in Slots :
            (/\ pending[slot] # NULL
             /\ pending'[slot] = NULL
             /\ Val(pending[slot]).op \in {"PUT /livros/:id", "PATCH /livros/:id"}
             /\ Val(pending[slot]).id \in DOMAIN livros
             /\ res'.status = 200)
            => LET id   == Val(pending[slot]).id
                   body == Val(pending[slot]).body
               IN  /\ \A k \in Fields(body) \ ReadOnlyAttributes :
                         livros'[id][k] = Column(k, body[k])
                   /\ \A k \in Attributes \ (Fields(body) \cup {"updatedAt"}) :
                         livros'[id][k] = livros[id][k] ]_vars

\* A PUT of titulo has been written from an instance read while the book
\* was available, after an overlapping update made it unavailable: the
\* stored book has both new values.
C22_Witness ==
    /\ IsUpdate
    /\ res.status = 200
    /\ req.body = [titulo |-> Some(<<"b">>)]
    /\ Val(res.livro).disponivel = TRUE
    /\ req.id \in DOMAIN livros
    /\ livros[req.id].titulo = <<"b">>
    /\ livros[req.id].disponivel = FALSE

\* C23: the book a successful POST /livros stores has the next rowid of
\* the sequence as its id and the time of the request as its createdAt and
\* updatedAt, whatever the body says.
C23_SystemFieldsAssigned ==
    [][ (req'.op = "POST /livros" /\ res'.status = 201)
        => LET id == Val(res'.livro)["id"]
           IN  /\ id = sqlite_sequence + 1
               /\ livros'[id].createdAt = now'
               /\ livros'[id].updatedAt = now' ]_vars

\* C24: after a PUT or PATCH answered 200 the stored book's updatedAt is
\* the time of the request, and not before the updatedAt it had.
C24_UpdatedAtRecomputed ==
    [][ (req'.op \in {"PUT /livros/:id", "PATCH /livros/:id"} /\ res'.status = 200)
        => /\ livros'[req'.id].updatedAt = now'
           /\ livros'[req'.id].updatedAt >= livros[req'.id].updatedAt ]_vars

\* C25: a PUT or PATCH answered 500 leaves the table as it was.
C25_FailedUpdateWritesNothing ==
    [][ (req'.op \in {"PUT /livros/:id", "PATCH /livros/:id"} /\ res'.status = 500)
        => livros' = livros ]_vars

\* An update whose body has a null titulo and a new genero has been
\* answered 500, and the book does not have that genero.
C25_Witness ==
    /\ IsUpdate
    /\ res.status = 500
    /\ req.body["titulo"] = NULL
    /\ "genero" \in Keys(req.body)
    /\ livros[req.id].genero # req.body["genero"]

\* C26: a PUT, PATCH or DELETE leaves every book but the one of its id in
\* the table as it was and adds none; a POST leaves every book as it was
\* and adds one when it is answered 201, none otherwise.
C26_OtherBooksUntouched ==
    [][ LET kept(ids) == \A i \in ids : i \in DOMAIN livros' /\ livros'[i] = livros[i]
        IN  /\ req'.op \in {"PUT /livros/:id", "PATCH /livros/:id", "DELETE /livros/:id"}
               => /\ kept(DOMAIN livros \ {req'.id})
                  /\ DOMAIN livros' \subseteq DOMAIN livros
            /\ req'.op = "POST /livros"
               => /\ kept(DOMAIN livros)
                  /\ Cardinality(DOMAIN livros' \ DOMAIN livros)
                        = IF res'.status = 201 THEN 1 ELSE 0 ]_vars

\* A book has been deleted next to another that has a genero and stays.
C26_Witness ==
    /\ IsDelete
    /\ res.status = 200
    /\ \E i \in DOMAIN livros : i # req.id /\ livros[i].genero # NULL

\* C27: when no GET /livros of the list screen is outstanding, the list it
\* displays is the response to its current search term: every book shown
\* passes the filter of GET /livros?titulo=<busca>.
C27_ListaOfLatestBusca ==
    (\A slot \in Slots : lista.pedidos[slot] = NULL)
    => \A i \in 1 .. Len(lista.livros) :
          Where([NoQuery EXCEPT !.titulo = Some(lista.busca)], lista.livros[i])

\* C28: the form never has two calls of salvar() waiting for the server,
\* and `loading` is true exactly while one is: it is false again once the
\* call has completed, with a success or a failure.
C28_OneSaveAtATime ==
    /\ Len(form.pedidos) <= 1
    /\ form.loading <=> form.pedidos # <<>>
    /\ Disabled(form) <=> form.pedidos # <<>>

\* A save of a book that was removed meanwhile has failed with 404, the
\* alert was dismissed, and the next save is waiting for the server.
C28_Witness ==
    /\ req.op = "PUT /livros/:id"
    /\ res.status = 404
    /\ alerta = NULL
    /\ form.loading
    /\ Len(form.pedidos) = 1

LoanAttributes == {"disponivel", "emprestadoPara", "dataDevolucao"}

C29_LoanStateMachine ==
    [][ (/\ detalhes # NULL
         /\ detalhes' = NULL
         /\ req'.op = "PATCH /livros/:id")
        => LET tela   == Val(detalhes)
               stored == livros'[tela.livro.id]
           IN  IF req'.body["disponivel"] = Some(FALSE)
               THEN /\ stored.disponivel = FALSE
                    /\ stored.emprestadoPara = Some(tela.nomePessoa)
                    /\ DetalhesV1(JsonV1(stored)).dataDevolucao = tela.dataDevolucao
               ELSE /\ stored.disponivel = TRUE
                    /\ stored.emprestadoPara = NULL
                    /\ stored.dataDevolucao = NULL ]_vars

====
